---- MODULE Spec2Model ----
(***************************************************************************)
(* A model of kiro2api's auth package: the token pool manager              *)
(* (TokenManager), its cache entries, the credential loaders (env/JSON,    *)
(* CSV) and the service facade (AuthService).                              *)
(*                                                                         *)
(* Conventions.                                                            *)
(*  - Go strings that the code inspects character by character (CSV cells, *)
(*    credential fields) are sequences of one-character strings; "" is     *)
(*    <<>>.  Strings that are only compared are TLA+ strings.              *)
(*  - A Go pointer that may be nil is a sequence of length 0 (nil) or 1.   *)
(*  - Go slices are indexed from 0; the sequences here from 1, so          *)
(*    configs[i] of the code is configs[i + 1] here.                       *)
(*  - time.Time is an integer tick count; float64 quantities are integers  *)
(*    counted in units of 1/Scale, so that 1.0 is Scale.                   *)
(***************************************************************************)
EXTENDS Integers, Sequences, FiniteSets, TLC

VARIABLES
    phase,      \* "new" before construction, "ready" once a pool exists, "failed"
    tm,         \* the TokenManager struct
    now,        \* the wall clock
    mutex,      \* holder of tm.mutex: a caller, or NoCaller
    pc,         \* each concurrent caller's position
    call        \* each concurrent caller's locals

vars == <<phase, tm, now, mutex, pc, call>>

(***************************************************************************)
(* Bounds of the model.                                                    *)
(***************************************************************************)
MaxTime == 2
MaxConfigs == 2
Scale == 2

(***************************************************************************)
(* Strings.                                                                *)
(***************************************************************************)
UpperLetters == <<"A","B","C","D","E","F","G","H","I","J","K","L","M",
                  "N","O","P","Q","R","S","T","U","V","W","X","Y","Z">>
LowerLetters == <<"a","b","c","d","e","f","g","h","i","j","k","l","m",
                  "n","o","p","q","r","s","t","u","v","w","x","y","z">>

WhiteSpace == {" ", "\t", "\n", "\r"}

ToLowerChar(c) ==
    IF \E i \in 1..Len(UpperLetters) : UpperLetters[i] = c
    THEN LowerLetters[CHOOSE i \in 1..Len(UpperLetters) : UpperLetters[i] = c]
    ELSE c

ToLower(s) == [i \in 1..Len(s) |-> ToLowerChar(s[i])]

RECURSIVE TrimLeft(_)
TrimLeft(s) ==
    IF s # <<>> /\ Head(s) \in WhiteSpace THEN TrimLeft(Tail(s)) ELSE s

RECURSIVE TrimRight(_)
TrimRight(s) ==
    IF s # <<>> /\ s[Len(s)] \in WhiteSpace
    THEN TrimRight(SubSeq(s, 1, Len(s) - 1))
    ELSE s

TrimSpace(s) == TrimRight(TrimLeft(s))

(***************************************************************************)
(* Credential configurations.                                              *)
(***************************************************************************)
AuthMethodSocial == <<"S","o","c","i","a","l">>
AuthMethodIdC == <<"I","d","C">>

AuthConfig(authType, refreshToken, clientID, clientSecret, disabled) ==
    [AuthType |-> authType, RefreshToken |-> refreshToken,
     ClientID |-> clientID, ClientSecret |-> clientSecret,
     Disabled |-> disabled]

\* processConfigs: drop entries without refresh token, IdC entries without
\* client id or secret, and disabled entries; default the auth type.
RECURSIVE processConfigs(_)
processConfigs(configs) ==
    IF configs = <<>> THEN <<>>
    ELSE LET c0 == Head(configs)
             config == IF c0.AuthType = <<>>
                       THEN [c0 EXCEPT !.AuthType = AuthMethodSocial]
                       ELSE c0
             rest == processConfigs(Tail(configs))
         IN  IF c0.RefreshToken = <<>> THEN rest
             ELSE IF config.AuthType = AuthMethodIdC
                     /\ (config.ClientID = <<>> \/ config.ClientSecret = <<>>)
                  THEN rest
             ELSE IF config.Disabled THEN rest
             ELSE <<config>> \o rest

(***************************************************************************)
(* Loaders.  A loader returns [err, configs]; err = "" is Go's nil error.  *)
(***************************************************************************)
Loaded(configs) == [err |-> "", configs |-> configs]
LoadError(msg) == [err |-> msg, configs |-> <<>>]

\* loadConfigs: env is what KIRO_AUTH_TOKEN holds: [kind, configs] with kind
\* "unset" (variable empty), "invalid" (unreadable file or malformed JSON)
\* or "parsed" (configs is what parseJSONConfig returned).
loadConfigs(env) ==
    IF env.kind = "unset" THEN LoadError("KIRO_AUTH_TOKEN not set")
    ELSE IF env.kind = "invalid" THEN LoadError("cannot parse KIRO_AUTH_TOKEN")
    ELSE IF Len(env.configs) = 0 THEN LoadError("KIRO_AUTH_TOKEN is empty")
    ELSE LET validConfigs == processConfigs(env.configs)
         IN  IF Len(validConfigs) = 0 THEN LoadError("no valid auth config")
             ELSE Loaded(validConfigs)

\* csv.Reader.ReadAll with the reader's defaults (FieldsPerRecord = 0): the
\* first record fixes the number of fields, and a later record with another
\* number of fields is an error (csv.ErrFieldCount) that fails the whole read.
ReadAll(records) ==
    IF \E i \in 1..Len(records) : Len(records[i]) # Len(records[1])
    THEN [err |-> "wrong number of fields", records |-> <<>>]
    ELSE [err |-> "", records |-> records]

\* The loop of LoadAccountsFromCSV over records[1:].
RECURSIVE csvRows(_)
csvRows(rows) ==
    IF rows = <<>> THEN <<>>
    ELSE LET record == Head(rows)
             rest == csvRows(Tail(rows))
         IN  IF Len(record) < 4 THEN rest                  \* warning, skipped
             ELSE IF ToLower(TrimSpace(record[1])) # <<"t","r","u","e">> THEN rest
             ELSE <<AuthConfig(AuthMethodIdC, TrimSpace(record[2]),
                               TrimSpace(record[3]), TrimSpace(record[4]),
                               FALSE)>> \o rest

\* LoadAccountsFromCSV: file is [exists, records], records being the file's
\* lines split into cells.
LoadAccountsFromCSV(file) ==
    IF ~file.exists THEN LoadError("cannot open CSV file")
    ELSE LET read == ReadAll(file.records)
         IN  IF read.err # "" THEN LoadError("cannot read CSV file")
             ELSE IF Len(read.records) < 2 THEN LoadError("CSV file has no data rows")
             ELSE Loaded(csvRows(Tail(read.records)))

(***************************************************************************)
(* Cache entries and the availability model.                               *)
(***************************************************************************)
\* config.TokenCacheTTL, in ticks (the constant lives in package config).
TokenCacheTTL == 1

\* The zero time.Time.
ZeroTime == -1

\* fmt.Sprintf(config.TokenCacheKeyFormat, i): one key per index.
CacheKey(i) == <<"token_", i>>

\* CalculateAvailableCount: the first CREDIT breakdown decides.
RECURSIVE availableIn(_)
availableIn(list) ==
    IF list = <<>> THEN 0
    ELSE LET breakdown == Head(list)
         IN  IF breakdown.ResourceType = "CREDIT"
             THEN LET freeTrialAvailable ==
                          IF breakdown.FreeTrialInfo # <<>>
                             /\ breakdown.FreeTrialInfo[1].FreeTrialStatus = "ACTIVE"
                          THEN breakdown.FreeTrialInfo[1].UsageLimitWithPrecision
                               - breakdown.FreeTrialInfo[1].CurrentUsageWithPrecision
                          ELSE 0
                      baseAvailable == breakdown.UsageLimitWithPrecision
                                       - breakdown.CurrentUsageWithPrecision
                      totalAvailable == freeTrialAvailable + baseAvailable
                  IN  IF totalAvailable < 0 THEN 0 ELSE totalAvailable
             ELSE availableIn(Tail(list))

\* Mutant of CalculateAvailableCount: a negative total is returned as it is.
RECURSIVE availableUnclamped(_)
availableUnclamped(list) ==
    IF list = <<>> THEN 0
    ELSE IF Head(list).ResourceType = "CREDIT"
         THEN (IF Head(list).FreeTrialInfo # <<>>
                  /\ Head(list).FreeTrialInfo[1].FreeTrialStatus = "ACTIVE"
               THEN Head(list).FreeTrialInfo[1].UsageLimitWithPrecision
                    - Head(list).FreeTrialInfo[1].CurrentUsageWithPrecision
               ELSE 0)
              + Head(list).UsageLimitWithPrecision
              - Head(list).CurrentUsageWithPrecision
         ELSE availableUnclamped(Tail(list))

CalculateAvailableCountUnclamped(usage) ==
    availableUnclamped(usage.UsageBreakdownList)

CalculateAvailableCount(usage) == availableIn(usage.UsageBreakdownList)

\* Mutant of IsUsable: a token counts as expired at its expiry instant.
IsUsableBefore(ct, t) ==
    IF t >= ct.Token.ExpiresAt THEN FALSE
    ELSE ct.Available > 0

\* CachedToken.IsUsable at time t: time.Now().After(ExpiresAt) is t > ExpiresAt.
IsUsable(ct, t) ==
    IF t > ct.Token.ExpiresAt THEN FALSE
    ELSE ct.Available > 0

(***************************************************************************)
(* The token pool manager.                                                 *)
(***************************************************************************)
\* Mutant of generateConfigOrder: the keys are numbered from 1.
generateConfigOrderFromOne(configs) == [i \in 1..Len(configs) |-> CacheKey(i)]

\* generateConfigOrder
generateConfigOrder(configs) == [i \in 1..Len(configs) |-> CacheKey(i - 1)]

\* NewTokenManager
NewTokenManager(configs) ==
    [cache |-> [tokens |-> <<>>, ttl |-> TokenCacheTTL],
     configs |-> configs,
     lastRefresh |-> ZeroTime,
     configOrder |-> generateConfigOrder(configs),
     currentIndex |-> 0,
     exhausted |-> {}]

\* tm.cache.tokens[key] = entry
PutToken(tokens, key, entry) ==
    [k \in DOMAIN tokens \cup {key} |-> IF k = key THEN entry ELSE tokens[k]]

\* The refresh collaborator's token for credential index at time t.
IssuedToken(index, t, expiresIn) ==
    [AccessToken |-> <<"at", index, t>>, ExpiresAt |-> t + expiresIn]

\* Mutant of refreshSingleTokenByIndex: a failing token exchange drops the
\* credential's cache entry.
refreshDroppingEntry(t, index, time, oracle) ==
    IF index >= Len(t.configs) THEN [tm |-> t, err |-> "index out of range"]
    ELSE IF t.configs[index + 1].Disabled THEN [tm |-> t, err |-> "token disabled"]
    ELSE IF oracle[index].exchange # "ok"
         THEN [tm |-> [t EXCEPT !.cache.tokens =
                          [k \in DOMAIN @ \ {CacheKey(index)} |-> @[k]]],
               err |-> "refresh failed"]
    ELSE [tm |-> [t EXCEPT !.cache.tokens =
                     PutToken(@, CacheKey(index),
                              [Token |-> IssuedToken(index, time,
                                                     oracle[index].expiresIn),
                               UsageInfo |-> oracle[index].usage,
                               CachedAt |-> time,
                               LastUsed |-> ZeroTime,
                               Available |->
                                   IF oracle[index].usage # <<>>
                                   THEN CalculateAvailableCount(oracle[index].usage[1])
                                   ELSE 0])],
          err |-> ""]

\* Mutant of refreshSingleTokenByIndex: a token whose usage check failed is
\* given one use.
refreshAssumingOneUse(t, index, time, oracle) ==
    IF index >= Len(t.configs) THEN [tm |-> t, err |-> "index out of range"]
    ELSE IF t.configs[index + 1].Disabled THEN [tm |-> t, err |-> "token disabled"]
    ELSE IF oracle[index].exchange # "ok" THEN [tm |-> t, err |-> "refresh failed"]
    ELSE [tm |-> [t EXCEPT !.cache.tokens =
                     PutToken(@, CacheKey(index),
                              [Token |-> IssuedToken(index, time,
                                                     oracle[index].expiresIn),
                               UsageInfo |-> oracle[index].usage,
                               CachedAt |-> time,
                               LastUsed |-> ZeroTime,
                               Available |->
                                   IF oracle[index].usage # <<>>
                                   THEN CalculateAvailableCount(oracle[index].usage[1])
                                   ELSE Scale])],
          err |-> ""]

\* refreshSingleTokenByIndex: oracle[index] is what the collaborators answer:
\* [exchange: "ok" or "err", expiresIn, usage: <<>> (the usage check failed)
\* or <<snapshot>>].  Returns [tm, err].
refreshSingleTokenByIndex(t, index, time, oracle) ==
    IF index >= Len(t.configs) THEN [tm |-> t, err |-> "index out of range"]
    ELSE IF t.configs[index + 1].Disabled THEN [tm |-> t, err |-> "token disabled"]
    ELSE IF oracle[index].exchange # "ok" THEN [tm |-> t, err |-> "refresh failed"]
    ELSE LET usageInfo == oracle[index].usage
             available == IF usageInfo # <<>>
                          THEN CalculateAvailableCount(usageInfo[1])
                          ELSE 0
             cacheKey == CacheKey(index)
             entry == [Token |-> IssuedToken(index, time, oracle[index].expiresIn),
                       UsageInfo |-> usageInfo,
                       CachedAt |-> time,
                       LastUsed |-> ZeroTime,
                       Available |-> available]
         IN  [tm |-> [t EXCEPT !.cache.tokens = PutToken(@, cacheKey, entry)],
              err |-> ""]

\* Mutant of Expired: an entry counts as stale already at the TTL.
ExpiredAtTTL(cached, time, ttl) == time - cached.CachedAt >= ttl

\* Line 112: the entry is older than the cache TTL.
Expired(cached, time, ttl) == time - cached.CachedAt > ttl

\* Mutant of MarkExhausted: the key is marked, the cursor stays.
MarkExhaustedNoAdvance(t, currentKey) ==
    [t EXCEPT !.exhausted = @ \cup {currentKey}]

\* Mutant of MarkExhausted: the cursor moves on without wrapping around.
MarkExhaustedNoWrap(t, currentKey) ==
    [t EXCEPT !.exhausted = @ \cup {currentKey},
              !.currentIndex = t.currentIndex + 1]

\* Lines 116-117, 135-136 and 149-150: mark the key and move the cursor on.
MarkExhausted(t, currentKey) ==
    [t EXCEPT !.exhausted = @ \cup {currentKey},
              !.currentIndex = (t.currentIndex + 1) % Len(t.configOrder)]

\* The result of a scan: sel is <<>> (nil) or <<key of the chosen entry>>;
\* visited lists the indices the loop looked at, refreshed the indices it
\* called refreshSingleTokenByIndex for, in order.
Scan(t, sel, visited, refreshed) ==
    [tm |-> t, sel |-> sel, visited |-> visited, refreshed |-> refreshed]

\* The loop of selectBestTokenUnlocked, from iteration `attempts` on.
RECURSIVE selectLoop(_, _, _, _, _, _)
selectLoop(t, time, oracle, attempts, visited, refreshed) ==
    IF attempts >= Len(t.configOrder) THEN Scan(t, <<>>, visited, refreshed)
    ELSE
    LET index == t.currentIndex
        currentKey == t.configOrder[index + 1]
        seen == Append(visited, index)
        tried == Append(refreshed, index)
        r == refreshSingleTokenByIndex(t, index, time, oracle)
        failed == selectLoop(MarkExhausted(r.tm, currentKey), time, oracle,
                             attempts + 1, seen, tried)
    IN  IF currentKey \in DOMAIN t.cache.tokens
        THEN IF Expired(t.cache.tokens[currentKey], time, t.cache.ttl)
             THEN IF r.err # "" THEN failed
                  ELSE IF IsUsable(r.tm.cache.tokens[currentKey], time)
                       THEN Scan(r.tm, <<currentKey>>, seen, tried)
                       ELSE failed
             ELSE IF IsUsable(t.cache.tokens[currentKey], time)
                  THEN Scan(t, <<currentKey>>, seen, refreshed)
                  ELSE selectLoop(MarkExhausted(t, currentKey), time, oracle,
                                  attempts + 1, seen, refreshed)
        ELSE IF r.err # "" THEN failed
             ELSE IF currentKey \in DOMAIN r.tm.cache.tokens
                     /\ IsUsable(r.tm.cache.tokens[currentKey], time)
                  THEN Scan(r.tm, <<currentKey>>, seen, tried)
                  ELSE failed

\* Mutant of selectBestTokenUnlocked: every scan starts at the first
\* credential instead of at the cursor.
selectFromFirst(t, time, oracle) ==
    IF Len(t.configOrder) = 0 THEN {Scan(t, <<>>, <<>>, <<>>)}
    ELSE {selectLoop([t EXCEPT !.currentIndex = 0], time, oracle, 0, <<>>, <<>>)}

\* Mutant of selectBestTokenUnlocked: a credential under the cursor whose key
\* is in exhausted is passed over without being looked at.
selectSkippingExhausted(t, time, oracle) ==
    IF Len(t.configOrder) = 0 THEN {Scan(t, <<>>, <<>>, <<>>)}
    ELSE IF t.configOrder[t.currentIndex + 1] \in t.exhausted
         THEN {selectLoop(MarkExhausted(t, t.configOrder[t.currentIndex + 1]),
                          time, oracle, 1, <<>>, <<>>)}
         ELSE {selectLoop(t, time, oracle, 0, <<>>, <<>>)}

\* selectBestTokenUnlocked: the set of scans the call can make (the map
\* iteration of the empty-order fallback has no fixed order).
selectBestTokenUnlocked(t, time, oracle) ==
    IF Len(t.configOrder) = 0
    THEN LET ok == {key \in DOMAIN t.cache.tokens :
                        /\ time - t.cache.tokens[key].CachedAt <= t.cache.ttl
                        /\ IsUsable(t.cache.tokens[key], time)}
         IN  IF ok = {} THEN {Scan(t, <<>>, <<>>, <<>>)}
             ELSE {Scan(t, <<key>>, <<>>, <<>>) : key \in ok}
    ELSE {selectLoop(t, time, oracle, 0, <<>>, <<>>)}

\* Mutant of UseToken: the use is stamped and not counted.
UseTokenUncounted(bestToken, time) == [bestToken EXCEPT !.LastUsed = time]

\* Lines 78-81: the bookkeeping on the chosen entry.
UseToken(bestToken, time) ==
    [bestToken EXCEPT !.LastUsed = time,
                      !.Available = IF @ > 0 THEN @ - Scale ELSE @]

\* getBestToken without the lock: the set of results the call can end with.
\* token is <<>> or <<the TokenInfo returned>>, err is "" for nil; key and
\* best are the key and the entry selectBestTokenUnlocked chose, as it was
\* before the bookkeeping (<<>> for nil); visited and refreshed are the scan's.
getBestToken(t, time, oracle) ==
    { IF s.sel = <<>>
      THEN [tm |-> s.tm, token |-> <<>>, err |-> "no usable token",
            key |-> <<>>, best |-> <<>>,
            visited |-> s.visited, refreshed |-> s.refreshed]
      ELSE LET bestToken == s.tm.cache.tokens[s.sel[1]]
           IN  [tm |-> [s.tm EXCEPT !.cache.tokens[s.sel[1]] =
                                        UseToken(bestToken, time)],
                token |-> <<bestToken.Token>>, err |-> "",
                key |-> s.sel, best |-> <<bestToken>>,
                visited |-> s.visited, refreshed |-> s.refreshed]
      : s \in selectBestTokenUnlocked(t, time, oracle) }

\* Mutant of refreshFrom: the full refresh stops at the first failure.
RECURSIVE refreshFromUntilFailure(_, _, _, _)
refreshFromUntilFailure(t, i, time, oracle) ==
    IF i >= Len(t.configs) THEN t
    ELSE IF refreshSingleTokenByIndex(t, i, time, oracle).err # "" THEN t
    ELSE refreshFromUntilFailure(refreshSingleTokenByIndex(t, i, time, oracle).tm,
                                 i + 1, time, oracle)

\* refreshCacheUnlocked: refresh every index, ignore the failures.
RECURSIVE refreshFrom(_, _, _, _)
refreshFrom(t, i, time, oracle) ==
    IF i >= Len(t.configs) THEN t
    ELSE refreshFrom(refreshSingleTokenByIndex(t, i, time, oracle).tm,
                     i + 1, time, oracle)

refreshCacheUnlocked(t, time, oracle) ==
    [tm |-> [refreshFrom(t, 0, time, oracle) EXCEPT !.lastRefresh = time],
     err |-> ""]

\* Mutant of AppendConfigs: the cursor is reset with the new order.
AppendConfigsResetCursor(t, newConfigs) ==
    LET configs == t.configs \o newConfigs
    IN  [t EXCEPT !.configs = configs,
                  !.configOrder = generateConfigOrder(configs),
                  !.currentIndex = 0]

\* Mutant of AppendConfigs: the rotation order is not regenerated.
AppendConfigsKeepingOrder(t, newConfigs) ==
    [t EXCEPT !.configs = t.configs \o newConfigs]

\* Lines 492-493 of AddAccountsFromCSV.
AppendConfigs(t, newConfigs) ==
    LET configs == t.configs \o newConfigs
    IN  [t EXCEPT !.configs = configs,
                  !.configOrder = generateConfigOrder(configs)]

\* AddAccountsFromCSV from line 485 on, loaded being what
\* LoadAccountsFromCSV returned: [tm, err, added].
AddLoaded(t, loaded, time, oracle) ==
    IF loaded.err # "" THEN [tm |-> t, err |-> loaded.err, added |-> 0]
    ELSE LET r == refreshCacheUnlocked(AppendConfigs(t, loaded.configs),
                                       time, oracle)
         IN  [tm |-> r.tm, err |-> r.err, added |-> Len(loaded.configs)]

\* AddAccountsFromCSV without the lock.
AddAccountsFromCSV(t, file, time, oracle) ==
    AddLoaded(t, LoadAccountsFromCSV(file), time, oracle)

(***************************************************************************)
(* The service facade.                                                     *)
(***************************************************************************)
\* Mutant of facadeConfigs: the CSV file is read only when the primary
\* source fails.
facadeConfigsPrimaryFirst(env, file) ==
    IF loadConfigs(env).err = "" THEN loadConfigs(env)
    ELSE IF LoadAccountsFromCSV(file).err = ""
            /\ Len(LoadAccountsFromCSV(file).configs) > 0
         THEN LoadAccountsFromCSV(file)
         ELSE LoadError("cannot load config")

\* Lines 20-39 of NewAuthService: the credential list, or the error.
facadeConfigs(env, file) ==
    LET primary == loadConfigs(env)
        csv == LoadAccountsFromCSV(file)
        configs == IF primary.err # ""
                   THEN IF csv.err = "" /\ Len(csv.configs) > 0
                        THEN Loaded(csv.configs)
                        ELSE LoadError("cannot load config")
                   ELSE IF csv.err = ""
                        THEN Loaded(primary.configs \o csv.configs)
                        ELSE Loaded(primary.configs)
    IN  IF configs.err # "" THEN configs
        ELSE IF Len(configs.configs) = 0 THEN LoadError("no valid token config")
        ELSE configs

\* NewAuthService: the set of [err, tm, configs] it can end with; the
\* warm-up's error is logged and dropped.
NewAuthService(env, file, time, oracle) ==
    LET loaded == facadeConfigs(env, file)
    IN  IF loaded.err # ""
        THEN {[err |-> loaded.err, tm |-> NewTokenManager(<<>>), configs |-> <<>>]}
        ELSE {[err |-> "", tm |-> warm.tm, configs |-> loaded.configs] :
                 warm \in getBestToken(NewTokenManager(loaded.configs), time, oracle)}

(***************************************************************************)
(* Inputs: what the environment can hand to the program.                   *)
(***************************************************************************)
RT1 == <<"r","t","1">>
CID1 == <<"c","i","d","1">>
CSEC1 == <<"c","s","e","c","1">>

SocialConfig == AuthConfig(<<>>, RT1, <<>>, <<>>, FALSE)
IdCConfig == AuthConfig(AuthMethodIdC, RT1, CID1, CSEC1, FALSE)
IdCNoSecret == AuthConfig(AuthMethodIdC, RT1, CID1, <<>>, FALSE)
NoRefreshToken == AuthConfig(AuthMethodSocial, <<>>, <<>>, <<>>, FALSE)
DisabledConfig == AuthConfig(AuthMethodIdC, RT1, CID1, CSEC1, TRUE)

\* What KIRO_AUTH_TOKEN can hold.
EnvInputs ==
    {[kind |-> "unset", configs |-> <<>>],
     [kind |-> "invalid", configs |-> <<>>],
     [kind |-> "parsed", configs |-> <<>>],
     [kind |-> "parsed", configs |-> <<NoRefreshToken, DisabledConfig>>],
     [kind |-> "parsed", configs |-> <<SocialConfig>>],
     [kind |-> "parsed", configs |-> <<IdCNoSecret, IdCConfig, DisabledConfig>>]}

Header == <<<<"e","n","a","b","l","e","d">>, <<"r","e","f","r","e","s","h">>,
            <<"c","l","i","e","n","t">>, <<"s","e","c","r","e","t">>>>
ShortHeader == <<<<"e","n","a","b","l","e","d">>, <<"r","e","f","r","e","s","h">>,
                 <<"c","l","i","e","n","t">>>>
RowTrue == <<<<"t","r","u","e">>, RT1, CID1, CSEC1>>
RowUpper == <<<<" ","T","R","U","E">>, <<" ">> \o RT1, CID1 \o <<" ">>, CSEC1>>
RowFalse == <<<<"f","a","l","s","e">>, RT1, CID1, CSEC1>>
RowShort == <<<<"t","r","u","e">>, RT1, CID1>>
RowBlank == <<<<"t","r","u","e">>, <<>>, CID1, CSEC1>>

File(records) == [exists |-> TRUE, records |-> records]
NoFile == [exists |-> FALSE, records |-> <<>>]

\* Files given to AddAccountsFromCSV while the pool runs.
HotAddFiles ==
    {NoFile,
     File(<<Header, RowFalse>>),
     File(<<Header, RowFalse, RowUpper>>),
     File(<<Header, RowTrue, RowUpper>>)}

\* What accounts.csv can be when the loaders are exercised.
CsvFiles ==
    HotAddFiles
    \cup {File(<<Header>>),
          File(<<Header, RowTrue>>),
          File(<<Header, RowShort, RowTrue>>),
          File(<<Header, RowBlank>>),
          File(<<ShortHeader, RowShort>>)}

\* Credential lists a pool is constructed from.
InitConfigs == {<<>>, <<IdCConfig>>, <<IdCConfig, DisabledConfig>>}

\* Usage snapshots the usage collaborator can answer with.
Breakdown(type, limit, current, trial) ==
    [ResourceType |-> type, UsageLimitWithPrecision |-> limit,
     CurrentUsageWithPrecision |-> current, FreeTrialInfo |-> trial]
FreeTrial(status, limit, current) ==
    <<[FreeTrialStatus |-> status, UsageLimitWithPrecision |-> limit,
       CurrentUsageWithPrecision |-> current]>>
Other == Breakdown("AGENTIC_REQUEST", 5 * Scale, 0, <<>>)

\* 2.0 left: 1.0 of an active free trial and 1.0 of the base allowance.
UsageTwo ==
    [UsageBreakdownList |->
        <<Other, Breakdown("CREDIT", Scale, 0, FreeTrial("ACTIVE", Scale, 0))>>]
\* A fraction of one use left.
UsageFraction ==
    [UsageBreakdownList |-> <<Breakdown("CREDIT", Scale, Scale - 1, <<>>)>>]
\* Overdrawn, with a free trial that is over.
UsageOverdrawn ==
    [UsageBreakdownList |->
        <<Breakdown("CREDIT", Scale, 2 * Scale, FreeTrial("EXPIRED", Scale, 0))>>]

Answer(exchange, expiresIn, usage) ==
    [exchange |-> exchange, expiresIn |-> expiresIn, usage |-> usage]

\* What the refresh and usage collaborators can answer for one credential:
\* the exchange fails; or it yields a token that outlives the cache TTL and
\* the usage check fails, or reports 2.0, a fraction, or an overdrawn quota;
\* or it yields a token that expires at once.
Outcomes ==
    {Answer("err", 0, <<>>),
     Answer("ok", TokenCacheTTL + 1, <<>>),
     Answer("ok", TokenCacheTTL + 1, <<UsageTwo>>),
     Answer("ok", TokenCacheTTL + 1, <<UsageFraction>>),
     Answer("ok", TokenCacheTTL + 1, <<UsageOverdrawn>>),
     Answer("ok", 0, <<UsageTwo>>)}

NotAsked == Answer("err", 0, <<>>)

\* One answer per credential index a call may ask the collaborators about;
\* the answer for an index that is not in `asked` is never read and is fixed.
OraclesOf(outcomes, n, asked) ==
    {[i \in 0..(n - 1) |-> IF i \in asked THEN f[i] ELSE NotAsked] :
        f \in [asked -> outcomes]}

Oracles(n, asked) == OraclesOf(Outcomes, n, asked)

\* The answers used where callers interleave: the exchange fails, or the
\* token comes with 2.0 uses or with a fraction of one.
ConcOutcomes ==
    {Answer("err", 0, <<>>),
     Answer("ok", TokenCacheTTL + 1, <<UsageTwo>>),
     Answer("ok", TokenCacheTTL + 1, <<UsageFraction>>)}

ConcOracles(n, asked) == OraclesOf(ConcOutcomes, n, asked)

\* The indices getBestToken can refresh: enabled credentials whose entry is
\* missing or older than the TTL.
Refreshable(t, time) ==
    {i \in 0..(Len(t.configs) - 1) :
        /\ ~t.configs[i + 1].Disabled
        /\ \/ CacheKey(i) \notin DOMAIN t.cache.tokens
           \/ Expired(t.cache.tokens[CacheKey(i)], time, t.cache.ttl)}

\* The indices a full refresh asks about: every enabled credential.
Enabled(configs) == {i \in 0..(Len(configs) - 1) : ~configs[i + 1].Disabled}

(***************************************************************************)
(* The pool, its calls made one at a time.                                 *)
(***************************************************************************)
Callers == {"c1", "c2"}
NoCaller == "none"

Idle ==
    /\ mutex = NoCaller
    /\ pc = [c \in Callers |-> "idle"]
    /\ call = [c \in Callers |-> <<>>]

\* A pool right after NewTokenManager(configs).
Init ==
    /\ phase = "ready"
    /\ \E configs \in InitConfigs : tm = NewTokenManager(configs)
    /\ now = 0
    /\ Idle

\* The calls getBestToken can make in the current state: one per answer of
\* the collaborators (and per order of the map iteration).
GetCalls ==
    UNION {getBestToken(tm, now, oracle) :
              oracle \in Oracles(Len(tm.configs), Refreshable(tm, now))}

\* The calls AddAccountsFromCSV(file) can make in the current state.
AddCalls(file) ==
    LET loaded == LoadAccountsFromCSV(file)
        configs == tm.configs \o loaded.configs
    IN  {AddLoaded(tm, loaded, now, oracle) :
            oracle \in Oracles(Len(configs), Enabled(configs))}

\* AuthService.GetToken / TokenManager.getBestToken, one whole call.
GetToken ==
    /\ phase = "ready"
    /\ \E r \in GetCalls : tm' = r.tm
    /\ UNCHANGED <<phase, now, mutex, pc, call>>

\* TokenManager.AddAccountsFromCSV(file), one whole call.
AddFrom(files) ==
    /\ phase = "ready"
    /\ \E file \in files :
         /\ Len(tm.configs) + Len(LoadAccountsFromCSV(file).configs) <= MaxConfigs
         /\ \E r \in AddCalls(file) : tm' = r.tm
    /\ UNCHANGED <<phase, now, mutex, pc, call>>

HotAdd == AddFrom(HotAddFiles)

\* Time passes.
Tick ==
    /\ now < MaxTime
    /\ now' = now + 1
    /\ UNCHANGED <<phase, tm, mutex, pc, call>>

Next == GetToken \/ HotAdd \/ Tick

Spec == Init /\ [][Next]_vars

(***************************************************************************)
(* The loaders and the facade: construction, then hot-adds.                *)
(***************************************************************************)
InitLoad ==
    /\ phase = "new"
    /\ tm = NewTokenManager(<<>>)
    /\ now = 0
    /\ Idle

\* NewAuthService(): the facade is built from the environment and accounts.csv.
Construct ==
    /\ phase = "new"
    /\ \E env \in EnvInputs, file \in CsvFiles :
         LET configs == facadeConfigs(env, file).configs
         IN  /\ Len(configs) <= MaxConfigs
             /\ \E oracle \in Oracles(Len(configs), Enabled(configs)) :
                  \E r \in NewAuthService(env, file, now, oracle) :
                     /\ phase' = IF r.err = "" THEN "ready" ELSE "failed"
                     /\ tm' = r.tm
    /\ UNCHANGED <<now, mutex, pc, call>>

Reload == AddFrom(CsvFiles)

NextLoad == Construct \/ Reload

SpecLoad == InitLoad /\ [][NextLoad]_vars

(***************************************************************************)
(* The availability model on its own: one credential, refreshed under      *)
(* every usage snapshot of a bounded set.                                  *)
(***************************************************************************)
\* Quantities a snapshot can report: 0, one unit of precision, 1.0.
Amounts == {0, 1, Scale}

\* The free-trial records of a breakdown: none, an active trial with 1.0
\* left, an active trial overdrawn by 1.0, a trial that is over.
Trials ==
    {<<>>, FreeTrial("ACTIVE", Scale, 0), FreeTrial("ACTIVE", 0, Scale),
     FreeTrial("EXPIRED", Scale, 0)}

Breakdowns ==
    {Other}
    \cup {Breakdown("CREDIT", limit, current, trial) :
             limit \in Amounts, current \in Amounts, trial \in Trials}

\* Snapshots: no breakdown, one breakdown, a breakdown listed after another
\* resource, and a breakdown followed by a CREDIT breakdown with 1.0 left.
UsageInputs ==
    {[UsageBreakdownList |-> list] :
        list \in {<<>>}
                 \cup {<<b>> : b \in Breakdowns}
                 \cup {<<Other, b>> : b \in Breakdowns}
                 \cup {<<b, Breakdown("CREDIT", Scale, 0, <<>>)>> :
                          b \in Breakdowns}}

InitUsage ==
    /\ phase = "ready"
    /\ tm = NewTokenManager(<<IdCConfig>>)
    /\ now = 0
    /\ Idle

\* refreshSingleTokenByIndex(0) with a token exchange that succeeds and a
\* usage check that answers with the snapshot.
Refresh ==
    /\ \E usage \in UsageInputs :
         tm' = refreshSingleTokenByIndex(
                   tm, 0, now,
                   [i \in {0} |-> Answer("ok", TokenCacheTTL + 1, <<usage>>)]).tm
    /\ UNCHANGED <<phase, now, mutex, pc, call>>

NextUsage == Refresh \/ Tick

SpecUsage == InitUsage /\ [][NextUsage]_vars

(***************************************************************************)
(* A pool of three credentials, for the rotation scenarios.                *)
(***************************************************************************)
RotateConfigs ==
    {<<IdCConfig, IdCConfig, IdCConfig>>,
     <<DisabledConfig, IdCConfig, IdCConfig>>}

\* The answers used with three credentials: the exchange fails, or the
\* token comes with 2.0 uses.
RotateOutcomes ==
    {Answer("err", 0, <<>>),
     Answer("ok", TokenCacheTTL + 1, <<UsageTwo>>)}

RotateOracles(t, time) ==
    OraclesOf(RotateOutcomes, Len(t.configs), Refreshable(t, time))

InitRotate ==
    /\ phase = "ready"
    /\ \E configs \in RotateConfigs : tm = NewTokenManager(configs)
    /\ now = 0
    /\ Idle

\* getBestToken on the pool of three, one whole call.
GetRotate ==
    /\ \E oracle \in RotateOracles(tm, now) :
         \E r \in getBestToken(tm, now, oracle) : tm' = r.tm
    /\ UNCHANGED <<phase, now, mutex, pc, call>>

NextRotate == GetRotate \/ Tick

SpecRotate == InitRotate /\ [][NextRotate]_vars

(***************************************************************************)
(* The pool under concurrent callers.  A caller is idle or inside one call; *)
(* pc is its position in the call and call its locals: new, the configs an  *)
(* AddAccountsFromCSV has loaded, sel, what selectBestTokenUnlocked         *)
(* returned, and at, the pool as it was when the caller got the lock.       *)
(***************************************************************************)
InCS == {"select", "use", "append", "refresh", "unlock"}

Locals(op, new, sel, at) == <<[op |-> op, new |-> new, sel |-> sel, at |-> at]>>

\* The configs loaded by callers that have not appended them yet.
Pending ==
    LET n(c) == IF pc[c] \in {"loaded", "append"} THEN Len(call[c][1].new) ELSE 0
    IN  n("c1") + n("c2")

\* Mutant of Lock: the caller does not wait for the lock to be free.
LockNoWait(c, from, to) ==
    /\ pc[c] = from
    /\ mutex' = c
    /\ pc' = [pc EXCEPT ![c] = to]

\* tm.mutex.Lock(): the caller at `from` waits until the lock is free, takes
\* it and goes on to `to`.
Lock(c, from, to) ==
    /\ pc[c] = from
    /\ mutex = NoCaller
    /\ mutex' = c
    /\ pc' = [pc EXCEPT ![c] = to]

\* getBestToken, line 68.
GetLock(c) ==
    /\ Lock(c, "idle", "select")
    /\ call' = [call EXCEPT ![c] = Locals("get", <<>>, <<>>, tm)]
    /\ UNCHANGED <<phase, tm, now>>

\* getBestToken, line 72.
GetSelect(c) ==
    /\ pc[c] = "select"
    /\ \E oracle \in ConcOracles(Len(tm.configs), Refreshable(tm, now)) :
         \E s \in selectBestTokenUnlocked(tm, now, oracle) :
            /\ tm' = s.tm
            /\ call' = [call EXCEPT ![c][1].sel = s.sel]
    /\ pc' = [pc EXCEPT ![c] = "use"]
    /\ UNCHANGED <<phase, now, mutex>>

\* getBestToken, lines 73-83.
GetUse(c) ==
    /\ pc[c] = "use"
    /\ tm' = IF call[c][1].sel = <<>> THEN tm
             ELSE [tm EXCEPT !.cache.tokens[call[c][1].sel[1]] = UseToken(@, now)]
    /\ pc' = [pc EXCEPT ![c] = "unlock"]
    /\ UNCHANGED <<phase, now, mutex, call>>

\* AddAccountsFromCSV, lines 484-487: the file is loaded before the lock is
\* asked for; a file that fails to load ends the call.
AddLoad(c) ==
    /\ pc[c] = "idle"
    /\ \E file \in HotAddFiles :
         LET loaded == LoadAccountsFromCSV(file)
         IN  /\ loaded.err = ""
             /\ Len(tm.configs) + Pending + Len(loaded.configs) <= MaxConfigs
             /\ call' = [call EXCEPT ![c] = Locals("add", loaded.configs, <<>>,
                                                    NewTokenManager(<<>>))]
    /\ pc' = [pc EXCEPT ![c] = "loaded"]
    /\ UNCHANGED <<phase, tm, now, mutex>>

\* AddAccountsFromCSV, line 489.
AddLock(c) ==
    /\ Lock(c, "loaded", "append")
    /\ call' = [call EXCEPT ![c][1].at = tm]
    /\ UNCHANGED <<phase, tm, now>>

\* AddAccountsFromCSV, lines 492-493.
AddAppend(c) ==
    /\ pc[c] = "append"
    /\ tm' = AppendConfigs(tm, call[c][1].new)
    /\ pc' = [pc EXCEPT ![c] = "refresh"]
    /\ UNCHANGED <<phase, now, mutex, call>>

\* AddAccountsFromCSV, line 499.
AddRefresh(c) ==
    /\ pc[c] = "refresh"
    /\ \E oracle \in ConcOracles(Len(tm.configs), Enabled(tm.configs)) :
         tm' = refreshCacheUnlocked(tm, now, oracle).tm
    /\ pc' = [pc EXCEPT ![c] = "unlock"]
    /\ UNCHANGED <<phase, now, mutex, call>>

\* Mutant of Unlock: the call returns without releasing the lock.
UnlockKeepingLock(c) ==
    /\ pc[c] = "unlock"
    /\ pc' = [pc EXCEPT ![c] = "idle"]
    /\ call' = [call EXCEPT ![c] = <<>>]
    /\ UNCHANGED <<phase, tm, now, mutex>>

\* The deferred tm.mutex.Unlock() of either call, and the return.
Unlock(c) ==
    /\ pc[c] = "unlock"
    /\ mutex' = NoCaller
    /\ pc' = [pc EXCEPT ![c] = "idle"]
    /\ call' = [call EXCEPT ![c] = <<>>]
    /\ UNCHANGED <<phase, tm, now>>

\* Time passes while no caller holds the lock.
TickConc ==
    /\ mutex = NoCaller
    /\ Tick

NextConc ==
    \/ \E c \in Callers :
          \/ GetLock(c) \/ GetSelect(c) \/ GetUse(c)
          \/ AddLoad(c) \/ AddLock(c) \/ AddAppend(c) \/ AddRefresh(c)
          \/ Unlock(c)
    \/ TickConc

SpecConc == Init /\ [][NextConc]_vars

(***************************************************************************)
(* Concurrent callers under fair scheduling.  A caller of getBestToken is  *)
(* at "wait" from the call until tm.mutex.Lock() returns.  The scheduler   *)
(* runs every goroutine that can take a step, each collaborator call       *)
(* returns, and sync.Mutex hands the lock to a goroutine that keeps        *)
(* waiting for it (its starvation mode), which is strong fairness of the   *)
(* two Lock steps.                                                         *)
(***************************************************************************)
\* A caller calls getBestToken and blocks in tm.mutex.Lock() (line 68).
GetWait(c) ==
    /\ pc[c] = "idle"
    /\ pc' = [pc EXCEPT ![c] = "wait"]
    /\ UNCHANGED <<phase, tm, now, mutex, call>>

\* tm.mutex.Lock() returns to the waiting caller.
GetEnter(c) ==
    /\ Lock(c, "wait", "select")
    /\ call' = [call EXCEPT ![c] = Locals("get", <<>>, <<>>, NewTokenManager(<<>>))]
    /\ UNCHANGED <<phase, tm, now>>

\* The clock stands still here: no step of a caller waits for it, and calls
\* at later times are taken from the same pools where a property needs them.
NextFair ==
    \E c \in Callers :
          \/ GetWait(c) \/ GetEnter(c) \/ GetSelect(c) \/ GetUse(c)
          \/ AddLoad(c) \/ AddLock(c) \/ AddAppend(c) \/ AddRefresh(c)
          \/ Unlock(c)

Fairness ==
    \A c \in Callers :
        /\ SF_vars(GetEnter(c))
        /\ SF_vars(AddLock(c))
        /\ WF_vars(GetSelect(c))
        /\ WF_vars(GetUse(c))
        /\ WF_vars(AddAppend(c))
        /\ WF_vars(AddRefresh(c))
        /\ WF_vars(Unlock(c))

SpecFair == Init /\ [][NextFair]_vars /\ Fairness

(***************************************************************************)
(* Properties.                                                             *)
(***************************************************************************)
Indices(t) == 0..(Len(t.configOrder) - 1)
Range(seq) == {seq[i] : i \in 1..Len(seq)}
Tokens == tm.cache.tokens
HotAdded == tm.lastRefresh # ZeroTime

\* The files AddAccountsFromCSV can be given in the current state.
Addable(files) ==
    {file \in files :
        Len(tm.configs) + Len(LoadAccountsFromCSV(file).configs) <= MaxConfigs}

\* C1: with a non-empty rotation order, a call of getBestToken either
\* returns the token of a cache entry that IsUsable when it is chosen, or
\* fails with "no usable token" after the scan has looked at each of the N
\* indices exactly once.
C1_UsableOrAllTried ==
    Len(tm.configOrder) > 0 =>
        \A r \in GetCalls :
            \/ /\ r.err = ""
               /\ r.best # <<>>
               /\ IsUsable(r.best[1], now)
               /\ r.token = <<r.best[1].Token>>
               /\ r.key[1] \in DOMAIN r.tm.cache.tokens
               /\ r.tm.cache.tokens[r.key[1]].Token = r.best[1].Token
            \/ /\ r.err = "no usable token"
               /\ r.token = <<>>
               /\ Len(r.visited) = Len(tm.configOrder)
               /\ Range(r.visited) = Indices(tm)

\* C1 witness: a pool of two credentials, the cursor on the second, from
\* which one call fails after trying both and another wraps around to the
\* first credential and returns its token.
C1_Witness ==
    /\ Len(tm.configOrder) = 2
    /\ tm.currentIndex = 1
    /\ \E r \in GetCalls : r.err # "" /\ r.visited = <<1, 0>>
    /\ \E r \in GetCalls : r.err = "" /\ r.visited = <<1, 0>>
                           /\ r.key = <<CacheKey(0)>>

\* The entry the cursor points at is usable and has more than one use left.
StickyCase ==
    /\ Len(tm.configOrder) > 0
    /\ tm.configOrder[tm.currentIndex + 1] \in DOMAIN Tokens
    /\ IsUsable(Tokens[tm.configOrder[tm.currentIndex + 1]], now)
    /\ Tokens[tm.configOrder[tm.currentIndex + 1]].Available > Scale

CurrentAge == now - Tokens[tm.configOrder[tm.currentIndex + 1]].CachedAt

Sticky(r) ==
    /\ r.tm.currentIndex = tm.currentIndex
    /\ r.refreshed = <<>>

\* C2 as claimed: in the sticky case a call neither advances the cursor nor
\* refreshes, whatever the entry's cache age.
C2_StickyAtAnyAge == StickyCase => \A r \in GetCalls : Sticky(r)

\* C2 amended: in the sticky case, when the entry's cache age does not
\* exceed the cache TTL, a call neither advances the cursor nor refreshes
\* and returns that entry's token.
C2_StickyWithinTTL ==
    (StickyCase /\ CurrentAge <= tm.cache.ttl) =>
        \A r \in GetCalls :
            /\ Sticky(r)
            /\ r.err = ""
            /\ r.key = <<tm.configOrder[tm.currentIndex + 1]>>

\* C2 witness: the sticky case on an entry that has aged to the TTL, after
\* the cursor has moved to the second credential.
C2_Witness ==
    /\ StickyCase
    /\ CurrentAge = tm.cache.ttl
    /\ tm.currentIndex = 1
    /\ \E r \in GetCalls : Sticky(r) /\ r.err = ""

\* C3 as claimed: a successful call lowers the chosen entry's Available by
\* exactly 1.0, and no cache entry ever has a negative Available.
C3_DecrementNeverNegative ==
    /\ \A r \in GetCalls :
          r.err = "" =>
             r.tm.cache.tokens[r.key[1]].Available = r.best[1].Available - Scale
    /\ \A key \in DOMAIN Tokens : Tokens[key].Available >= 0

C5_CursorInRange ==
    Len(tm.configOrder) > 0 =>
        (0 <= tm.currentIndex /\ tm.currentIndex < Len(tm.configOrder))

\* C5 witness: after a hot-add and failed selections the cursor is on the
\* last of two credentials; a further call wraps it around to index 0, where
\* it stays on success and from where it moves on to 1 again on failure.
C5_Witness ==
    /\ HotAdded
    /\ Len(tm.configOrder) = 2
    /\ tm.currentIndex = 1
    /\ tm.exhausted # {}
    /\ \E r \in GetCalls : r.err # "" /\ r.tm.currentIndex = 1
    /\ \E r \in GetCalls : r.err = "" /\ r.tm.currentIndex = 0

\* C6: the rotation order has one key per credential, the key of index i at
\* position i; a hot-add of k configs lengthens it by exactly k, leaves the
\* cursor alone and keeps the old credentials and keys as a prefix.
C6_OrderMatchesConfigs ==
    /\ Len(tm.configOrder) = Len(tm.configs)
    /\ \A i \in Indices(tm) : tm.configOrder[i + 1] = CacheKey(i)
    /\ \A file \in Addable(HotAddFiles) : \A r \in AddCalls(file) :
          LET k == Len(LoadAccountsFromCSV(file).configs)
              n == Len(tm.configs)
          IN  r.err = "" =>
                 /\ r.added = k
                 /\ Len(r.tm.configOrder) = Len(tm.configOrder) + k
                 /\ Len(r.tm.configs) = n + k
                 /\ r.tm.currentIndex = tm.currentIndex
                 /\ SubSeq(r.tm.configs, 1, n) = tm.configs
                 /\ SubSeq(r.tm.configOrder, 1, n) = tm.configOrder

\* C6 witness: a pool of two credentials that has been hot-added to, with
\* the cursor on the second one, to which a further hot-add can be applied.
C6_Witness ==
    /\ HotAdded
    /\ Len(tm.configs) = 2
    /\ tm.currentIndex = 1
    /\ \E file \in Addable(HotAddFiles) : \E r \in AddCalls(file) :
          r.err = "" /\ r.tm.lastRefresh = now

\* What index i is worth to a call made now under the collaborators'
\* answers: usable as cached, or refreshed into a usable entry.
UsableInCall(i, oracle) ==
    IF CacheKey(i) \in DOMAIN Tokens
       /\ now - Tokens[CacheKey(i)].CachedAt <= tm.cache.ttl
    THEN Tokens[CacheKey(i)].Available > 0
         /\ now <= Tokens[CacheKey(i)].Token.ExpiresAt
    ELSE /\ ~tm.configs[i + 1].Disabled
         /\ oracle[i].exchange = "ok"
         /\ oracle[i].expiresIn >= 0
         /\ oracle[i].usage # <<>>
         /\ CalculateAvailableCount(oracle[i].usage[1]) > 0

\* C7: after a hot-add, for every split of the credentials into the m
\* loaded first and those added after them: when none of the first m is
\* usable in a call and one of the added is, or refreshes to, a usable
\* entry, the call returns the token of an added credential.
C7_AddedCredentialServes ==
    HotAdded =>
        \A m \in 1..(Len(tm.configs) - 1) :
            \A oracle \in Oracles(Len(tm.configs), Refreshable(tm, now)) :
                ( /\ \A i \in 0..(m - 1) : ~UsableInCall(i, oracle)
                  /\ \E j \in m..(Len(tm.configs) - 1) : UsableInCall(j, oracle) )
                => \A r \in getBestToken(tm, now, oracle) :
                      /\ r.err = ""
                      /\ \E j \in m..(Len(tm.configs) - 1) :
                            /\ r.key = <<CacheKey(j)>>
                            /\ UsableInCall(j, oracle)
                            /\ r.token = <<r.tm.cache.tokens[CacheKey(j)].Token>>

\* C7 witness: the first credential, cached before the hot-add, is exhausted
\* and cannot be used, and the added second one has served a token.
C7_Witness ==
    /\ HotAdded
    /\ Len(tm.configs) = 2
    /\ CacheKey(0) \in tm.exhausted
    /\ \A oracle \in Oracles(2, Refreshable(tm, now)) : ~UsableInCall(0, oracle)
    /\ CacheKey(0) \in DOMAIN Tokens
    /\ Tokens[CacheKey(0)].CachedAt < tm.lastRefresh
    /\ CacheKey(1) \in DOMAIN Tokens
    /\ Tokens[CacheKey(1)].LastUsed = now
    /\ tm.currentIndex = 1

\* What the data model requires of a credential config in the pool.
ValidConfig(config) ==
    /\ config.RefreshToken # <<>>
    /\ ~config.Disabled
    /\ config.AuthType = AuthMethodIdC =>
          (config.ClientID # <<>> /\ config.ClientSecret # <<>>)

\* C9 as claimed: every credential config of a pool built by NewAuthService
\* and extended by AddAccountsFromCSV has a refresh token, is not disabled
\* and, if its auth method is IdC, has a client id and a client secret.
C9_OnlyValidConfigsInPool ==
    phase = "ready" =>
        \A i \in 1..Len(tm.configs) : ValidConfig(tm.configs[i])

\* The credentials the data rows of a CSV file stand for, row by row: one
\* IdC credential per row of at least 4 cells whose first cell is "true" in
\* any case, nothing for any other row.
RECURSIVE ClaimedRows(_)
ClaimedRows(rows) ==
    IF rows = <<>> THEN <<>>
    ELSE LET row == Head(rows)
         IN  (IF Len(row) >= 4 /\ ToLower(TrimSpace(row[1])) = <<"t","r","u","e">>
              THEN <<AuthConfig(AuthMethodIdC, TrimSpace(row[2]),
                                TrimSpace(row[3]), TrimSpace(row[4]), FALSE)>>
              ELSE <<>>)
             \o ClaimedRows(Tail(rows))

\* C10 as claimed: loading a CSV file of a header row and data rows succeeds
\* and yields, in row order, the credentials of its enabled rows of at least
\* 4 cells; a shorter row is skipped and the rows after it are still loaded,
\* also when a hot-add loads the file.
C10_ShortRowsAreSkipped ==
    phase = "ready" =>
        \A file \in CsvFiles :
            (file.exists /\ Len(file.records) >= 2) =>
                /\ LoadAccountsFromCSV(file).err = ""
                /\ LoadAccountsFromCSV(file).configs
                      = ClaimedRows(Tail(file.records))
                /\ \A r \in AddCalls(file) :
                      r.tm.configs
                         = tm.configs \o ClaimedRows(Tail(file.records))

\* The pool a finished critical section of caller c may leave behind when
\* it runs alone from the pool it found at Lock.
SerialOutcomes(c) ==
    IF call[c][1].op = "get"
    THEN {r.tm : r \in UNION {getBestToken(call[c][1].at, now, oracle) :
                     oracle \in ConcOracles(Len(call[c][1].at.configs),
                                        Refreshable(call[c][1].at, now))}}
    ELSE {AddLoaded(call[c][1].at, Loaded(call[c][1].new), now, oracle).tm :
             oracle \in ConcOracles(Len(call[c][1].at.configs) + Len(call[c][1].new),
                                Enabled(call[c][1].at.configs \o call[c][1].new))}

\* At most one caller is inside a critical section, and it holds the lock.
MutualExclusion ==
    /\ \A c, d \in Callers : (pc[c] \in InCS /\ pc[d] \in InCS) => c = d
    /\ \A c \in Callers : pc[c] \in InCS <=> mutex = c

\* A caller about to unlock leaves the pool as the whole call, run alone on
\* the pool it found when it got the lock, would have left it.
AtomicCalls ==
    \A c \in Callers : pc[c] = "unlock" => tm \in SerialOutcomes(c)

\* The pool changes only in a step of the caller that holds the lock.
WritesUnderLock ==
    tm' # tm =>
        /\ mutex \in Callers
        /\ mutex' = mutex
        /\ pc[mutex] \in InCS
        /\ pc'[mutex] # pc[mutex]
        /\ \A c \in Callers \ {mutex} : pc'[c] = pc[c]

\* C8: with concurrent callers of getBestToken and AddAccountsFromCSV at
\* most one caller is inside the critical section at any time, the pool is
\* read and written only by the caller that holds the lock, and every
\* critical section has the effect of the whole call run alone, so that the
\* execution equals the calls run one after the other in the order in which
\* they got the lock.
C8_CallsAreAtomic ==
    /\ [](MutualExclusion /\ AtomicCalls)
    /\ [][WritesUnderLock]_vars

\* C8 witness: one caller is about to leave a getBestToken that chose an
\* entry and changed the pool, while the other caller, holding configs it
\* has loaded, waits for the lock.
C8_Witness ==
    \E c, d \in Callers :
        /\ pc[c] = "unlock"
        /\ mutex = c
        /\ call[c][1].op = "get"
        /\ call[c][1].sel # <<>>
        /\ tm # call[c][1].at
        /\ pc[d] = "loaded"
        /\ Len(call[d][1].new) > 0

\* computeRemainingUses as the claim states it: 0 without a CREDIT
\* breakdown; otherwise, for the first CREDIT breakdown, the free-trial
\* remainder (counted only while the trial is ACTIVE) plus the base
\* remainder, and 0 when that sum is negative.
ClaimedRemainingUses(usage) ==
    LET list == usage.UsageBreakdownList
        credits == {i \in 1..Len(list) : list[i].ResourceType = "CREDIT"}
    IN  IF credits = {} THEN 0
        ELSE LET first == list[CHOOSE i \in credits : \A j \in credits : i <= j]
                 active == first.FreeTrialInfo # <<>>
                           /\ first.FreeTrialInfo[1].FreeTrialStatus = "ACTIVE"
                 trial == IF active
                          THEN first.FreeTrialInfo[1].UsageLimitWithPrecision
                               - first.FreeTrialInfo[1].CurrentUsageWithPrecision
                          ELSE 0
                 total == trial + first.UsageLimitWithPrecision
                                - first.CurrentUsageWithPrecision
             IN  IF total > 0 THEN total ELSE 0

\* The snapshot's first CREDIT breakdown has a negative base remainder and
\* no active free trial.
NegativeBaseNoTrial(usage) ==
    \E i \in 1..Len(usage.UsageBreakdownList) :
        LET b == usage.UsageBreakdownList[i]
        IN  /\ b.ResourceType = "CREDIT"
            /\ \A j \in 1..(i - 1) :
                  usage.UsageBreakdownList[j].ResourceType # "CREDIT"
            /\ b.UsageLimitWithPrecision - b.CurrentUsageWithPrecision < 0
            /\ ~(b.FreeTrialInfo # <<>>
                 /\ b.FreeTrialInfo[1].FreeTrialStatus = "ACTIVE")

\* C11: the remaining uses a refresh computes from a usage snapshot are a
\* function of the snapshot alone and never negative: 0 without a CREDIT
\* breakdown, otherwise max(0, active free-trial remainder + base remainder)
\* of the first CREDIT breakdown; 0 for a negative base remainder without an
\* active free trial.
C11_RemainingUsesOfSnapshot ==
    \A key \in DOMAIN Tokens :
        Tokens[key].UsageInfo # <<>> =>
            LET usage == Tokens[key].UsageInfo[1]
            IN  /\ Tokens[key].Available = ClaimedRemainingUses(usage)
                /\ CalculateAvailableCount(usage) = Tokens[key].Available
                /\ Tokens[key].Available >= 0
                /\ (\A i \in 1..Len(usage.UsageBreakdownList) :
                       usage.UsageBreakdownList[i].ResourceType # "CREDIT")
                      => Tokens[key].Available = 0
                /\ NegativeBaseNoTrial(usage) => Tokens[key].Available = 0

\* C11 witness: an entry refreshed from a snapshot whose first CREDIT
\* breakdown, listed after another resource, is overdrawn while its free
\* trial is over; its remaining uses are 0.
C11_Witness ==
    /\ CacheKey(0) \in DOMAIN Tokens
    /\ Tokens[CacheKey(0)].UsageInfo
          = <<[UsageBreakdownList |->
                  <<Other, Breakdown("CREDIT", 0, Scale,
                                     FreeTrial("EXPIRED", Scale, 0))>>]>>
    /\ Tokens[CacheKey(0)].Available = 0
    /\ Tokens[CacheKey(0)].CachedAt = now

\* In pool t at the given time a call has to refresh index i (its entry is
\* missing or older than the TTL) and that refresh fails.
FailsRefresh(t, time, i, oracle) ==
    /\ \/ CacheKey(i) \notin DOMAIN t.cache.tokens
       \/ time - t.cache.tokens[CacheKey(i)].CachedAt > t.cache.ttl
    /\ \/ t.configs[i + 1].Disabled
       \/ oracle[i].exchange # "ok"

\* The entry of index i in pool t is usable at the given time.
UsableAt(t, time, i) ==
    /\ CacheKey(i) \in DOMAIN t.cache.tokens
    /\ t.cache.tokens[CacheKey(i)].Available > 0
    /\ time <= t.cache.tokens[CacheKey(i)].Token.ExpiresAt

\* The entry of index i in pool t is no older than the cache TTL.
FreshAt(t, time, i) ==
    /\ CacheKey(i) \in DOMAIN t.cache.tokens
    /\ time - t.cache.tokens[CacheKey(i)].CachedAt <= t.cache.ttl

\* In pool t at the given time index i is, or refreshes to, a usable entry.
ServesAt(t, time, i, oracle) ==
    IF FreshAt(t, time, i) THEN UsableAt(t, time, i)
    ELSE /\ ~t.configs[i + 1].Disabled
         /\ oracle[i].exchange = "ok"
         /\ oracle[i].expiresIn >= 0
         /\ oracle[i].usage # <<>>
         /\ CalculateAvailableCount(oracle[i].usage[1]) > 0

\* A call returns the token of k1 and leaves the cursor on it.
StaysOnSecond(r) ==
    /\ r.err = ""
    /\ r.key = <<CacheKey(1)>>
    /\ r.token = <<r.tm.cache.tokens[CacheKey(1)].Token>>
    /\ r.tm.currentIndex = 1

\* The second calls of the scenario: made at any later time from the pool
\* the first call left, with k0's refresh failing again.
SecondCalls(t, time, stillUsable(_, _)) ==
    \A later \in time..MaxTime :
        \A again \in RotateOracles(t, later) :
            (again[0].exchange # "ok" /\ stillUsable(t, later))
                => \A r \in getBestToken(t, later, again) :
                      StaysOnSecond(r) /\ 0 \notin Range(r.visited)

\* The scenario: three credentials, the cursor on k0, k0's refresh fails and
\* k1 is or refreshes to a usable entry; the first call returns k1's token
\* and leaves the cursor on k1, and so does every second call for which
\* stillUsable holds.
FailureThenSticky(stillUsable(_, _)) ==
    (Len(tm.configOrder) = 3 /\ tm.currentIndex = 0) =>
        \A first \in RotateOracles(tm, now) :
            (FailsRefresh(tm, now, 0, first) /\ ServesAt(tm, now, 1, first))
                => \A r \in getBestToken(tm, now, first) :
                      /\ StaysOnSecond(r)
                      /\ r.visited = <<0, 1>>
                      /\ SecondCalls(r.tm, now, stillUsable)

UsableSecond(t, time) == UsableAt(t, time, 1)
UsableFreshSecond(t, time) == UsableAt(t, time, 1) /\ FreshAt(t, time, 1)

\* C12 as claimed: with the order [k0,k1,k2] and the cursor on k0, when
\* k0's refresh fails and k1 is or refreshes to a usable entry the first
\* call returns k1's token and leaves the cursor on k1; a second call, with
\* k0's refresh still failing, stays on k1 and returns its token as long as
\* k1 is usable.
C12_StaysWhileUsable == FailureThenSticky(UsableSecond)

\* C12 amended: as claimed, the second call staying on k1 as long as k1 is
\* usable and its cache age does not exceed the cache TTL.
C12_StaysWhileUsableAndFresh == FailureThenSticky(UsableFreshSecond)

\* C12 witness: the pool after the first call of the scenario: k0 is
\* exhausted and has no entry, the cursor is on k1, which has just served a
\* token and has uses left, and a second call with k0 failing stays on k1.
C12_Witness ==
    /\ Len(tm.configOrder) = 3
    /\ tm.currentIndex = 1
    /\ CacheKey(0) \in tm.exhausted
    /\ CacheKey(0) \notin DOMAIN Tokens
    /\ CacheKey(1) \in DOMAIN Tokens
    /\ Tokens[CacheKey(1)].LastUsed = now
    /\ UsableFreshSecond(tm, now)
    /\ \E again \in RotateOracles(tm, now) :
          /\ again[0].exchange # "ok"
          /\ \E r \in getBestToken(tm, now, again) : StaysOnSecond(r)

\* The credential list the facade is built with, as the claim states it:
\* <<list>>, or <<>> when construction fails.
ClaimedFacadeList(env, file) ==
    LET primary == loadConfigs(env)
        csv == LoadAccountsFromCSV(file)
    IN  CASE primary.err = "" /\ csv.err = "" ->
                 <<primary.configs \o csv.configs>>
          [] primary.err = "" /\ csv.err # "" -> <<primary.configs>>
          [] primary.err # "" /\ csv.err = "" /\ Len(csv.configs) >= 1 ->
                 <<csv.configs>>
          [] OTHER -> <<>>

\* C13: NewAuthService builds the pool from the primary credentials followed
\* by the CSV credentials (the primary ones alone when the CSV load fails)
\* if the primary source succeeds, from the CSV credentials alone if the
\* primary source fails and the CSV file yields at least one, and fails
\* otherwise; whatever the warm-up selection does, construction succeeds
\* once the list is built.
C13_FacadeCredentialList ==
    /\ phase = "new" =>
          \A env \in EnvInputs, file \in CsvFiles :
              LET claimed == ClaimedFacadeList(env, file)
                  n == Len(facadeConfigs(env, file).configs)
              IN  \A oracle \in Oracles(n, Enabled(facadeConfigs(env, file).configs)) :
                      \A r \in NewAuthService(env, file, now, oracle) :
                          IF claimed = <<>>
                          THEN r.err # "" /\ r.configs = <<>>
                          ELSE /\ r.err = ""
                               /\ r.configs = claimed[1]
                               /\ r.tm.configs = claimed[1]
                               /\ Len(r.tm.configOrder) = Len(claimed[1])
    /\ (phase = "ready" /\ ~HotAdded) =>
          \E env \in EnvInputs, file \in CsvFiles :
              ClaimedFacadeList(env, file) = <<tm.configs>>
    /\ phase = "failed" => tm.configs = <<>>

\* C13 witness: a facade built from one primary credential followed by one
\* CSV credential whose warm-up selection failed on both.
C13_Witness ==
    /\ phase = "ready"
    /\ ~HotAdded
    /\ tm.configs = <<[SocialConfig EXCEPT !.AuthType = AuthMethodSocial],
                      IdCConfig>>
    /\ DOMAIN Tokens = {}
    /\ tm.exhausted = {CacheKey(0), CacheKey(1)}

\* The answers under which a refresh of index i of the current pool fails:
\* i is out of range, its credential is disabled, or the exchange fails.
RefreshFails(i, oracle) ==
    \/ i >= Len(tm.configs)
    \/ tm.configs[i + 1].Disabled
    \/ oracle[i].exchange # "ok"

\* The visited indices follow the rotation: each is the one before plus one
\* modulo N.
Rotates(visited, n) ==
    \A k \in 1..(Len(visited) - 1) : visited[k + 1] = (visited[k] + 1) % n

\* C14: a refresh that fails (exchange error, disabled credential or index
\* out of range) returns an error and leaves the pool, and so the entry of
\* its key, as it was; in getBestToken every index whose refresh failed has
\* its key in exhausted and its entry unchanged, and the scan has gone on to
\* the next index modulo N unless all N were visited.
C14_FailedRefreshKeepsEntry ==
    /\ \A i \in 0..Len(tm.configs) : \A answer \in Outcomes :
          LET oracle == [j \in 0..Len(tm.configs) |-> answer]
          IN  RefreshFails(i, oracle) =>
                 /\ refreshSingleTokenByIndex(tm, i, now, oracle).err # ""
                 /\ refreshSingleTokenByIndex(tm, i, now, oracle).tm = tm
    /\ \A oracle \in Oracles(Len(tm.configs), Refreshable(tm, now)) :
          \A r \in getBestToken(tm, now, oracle) :
              /\ Rotates(r.visited, Len(tm.configOrder))
              /\ \A k \in 1..Len(r.refreshed) :
                    LET i == r.refreshed[k]
                        key == CacheKey(i)
                    IN  RefreshFails(i, oracle) =>
                           /\ key \in r.tm.exhausted
                           /\ key \in DOMAIN r.tm.cache.tokens
                                 <=> key \in DOMAIN Tokens
                           /\ key \in DOMAIN Tokens
                                 => r.tm.cache.tokens[key] = Tokens[key]
                           /\ r.key # <<key>>
                           /\ \/ Len(r.visited) = Len(tm.configOrder)
                              \/ \E j \in 1..(Len(r.visited) - 1) :
                                    /\ r.visited[j] = i
                                    /\ r.visited[j + 1]
                                          = (i + 1) % Len(tm.configOrder)
                           /\ r.err # "" => r.tm.currentIndex = tm.currentIndex
                           /\ r.err = "" =>
                                 r.tm.currentIndex = r.visited[Len(r.visited)]

\* C14 witness: the first credential's entry is older than the TTL; a call
\* whose refresh of it fails keeps the old entry, marks its key and goes on
\* to the second credential, whose token it returns.
C14_Witness ==
    /\ Len(tm.configs) = 2
    /\ tm.currentIndex = 0
    /\ CacheKey(0) \in DOMAIN Tokens
    /\ Expired(Tokens[CacheKey(0)], now, tm.cache.ttl)
    /\ CacheKey(0) \notin tm.exhausted
    /\ \E oracle \in Oracles(2, Refreshable(tm, now)) :
          /\ oracle[0].exchange # "ok"
          /\ \E r \in getBestToken(tm, now, oracle) :
                /\ r.refreshed = <<0, 1>>
                /\ r.key = <<CacheKey(1)>>
                /\ r.tm.cache.tokens[CacheKey(0)] = Tokens[CacheKey(0)]
                /\ CacheKey(0) \in r.tm.exhausted
                /\ r.tm.currentIndex = 1

\* The entry a refresh writes when the exchange succeeds with the given
\* lifetime and the usage check fails.
UnknownUsageEntry(i, expiresIn) ==
    [Token |-> IssuedToken(i, now, expiresIn), UsageInfo |-> <<>>,
     CachedAt |-> now, LastUsed |-> ZeroTime, Available |-> 0]

\* The credential index a cache key stands for.
IndexOf(key) == key[2]

\* C15: when the exchange succeeds and the usage check fails, the refresh
\* succeeds and overwrites the entry with the new token, no usage snapshot
\* and 0 remaining uses; an entry without a snapshot is never usable, and
\* getBestToken returns the token of such a key only after refreshing it in
\* the same call into an entry whose snapshot leaves uses.
C15_UnknownUsageIsUnusable ==
    /\ \A i \in Enabled(tm.configs) : \A expiresIn \in {0, TokenCacheTTL + 1} :
          LET oracle == [j \in 0..(Len(tm.configs) - 1) |->
                            Answer("ok", expiresIn, <<>>)]
              r == refreshSingleTokenByIndex(tm, i, now, oracle)
          IN  /\ r.err = ""
              /\ DOMAIN r.tm.cache.tokens = DOMAIN Tokens \cup {CacheKey(i)}
              /\ r.tm.cache.tokens[CacheKey(i)] = UnknownUsageEntry(i, expiresIn)
              /\ \A key \in DOMAIN Tokens \ {CacheKey(i)} :
                    r.tm.cache.tokens[key] = Tokens[key]
    /\ \A key \in DOMAIN Tokens :
          Tokens[key].UsageInfo = <<>> =>
              /\ Tokens[key].Available = 0
              /\ \A t \in 0..MaxTime : ~IsUsable(Tokens[key], t)
    /\ \A oracle \in Oracles(Len(tm.configs), Refreshable(tm, now)) :
          \A r \in getBestToken(tm, now, oracle) :
              r.err = "" =>
                  /\ r.best[1].UsageInfo # <<>>
                  /\ CalculateAvailableCount(r.best[1].UsageInfo[1]) > 0
                  /\ (r.key[1] \in DOMAIN Tokens
                      /\ Tokens[r.key[1]].UsageInfo = <<>>) =>
                         /\ IndexOf(r.key[1]) \in Range(r.refreshed)
                         /\ oracle[IndexOf(r.key[1])].usage = r.best[1].UsageInfo
                         /\ r.best[1].CachedAt = now

\* C15 witness: an entry written without a usage snapshot was passed over by
\* a selection and has since aged beyond the TTL; a call whose refresh of it
\* obtains a snapshot with uses left returns its token.
C15_Witness ==
    /\ CacheKey(0) \in DOMAIN Tokens
    /\ Tokens[CacheKey(0)].UsageInfo = <<>>
    /\ Tokens[CacheKey(0)].Available = 0
    /\ now <= Tokens[CacheKey(0)].Token.ExpiresAt
    /\ CacheKey(0) \in tm.exhausted
    /\ tm.currentIndex = 0
    /\ \E oracle \in Oracles(Len(tm.configs), Refreshable(tm, now)) :
          \E r \in getBestToken(tm, now, oracle) :
              r.err = "" /\ r.key = <<CacheKey(0)>>

\* The entry a successful refresh of index i writes now under an answer.
FreshEntry(i, answer) ==
    [Token |-> IssuedToken(i, now, answer.expiresIn),
     UsageInfo |-> answer.usage,
     CachedAt |-> now,
     LastUsed |-> ZeroTime,
     Available |-> IF answer.usage = <<>> THEN 0
                   ELSE ClaimedRemainingUses(answer.usage[1])]

\* What a hot-add that has loaded its file leaves behind: no error, the
\* stamp, a fresh entry for every index whose refresh succeeded and the old
\* entry, or none, for every other index.
FullRefreshOutcome(r, configs, oracle) ==
    /\ r.err = ""
    /\ r.tm.lastRefresh = now
    /\ r.tm.configs = configs
    /\ DOMAIN r.tm.cache.tokens \subseteq {CacheKey(i) : i \in 0..(Len(configs) - 1)}
    /\ \A i \in 0..(Len(configs) - 1) :
          IF ~configs[i + 1].Disabled /\ oracle[i].exchange = "ok"
          THEN /\ CacheKey(i) \in DOMAIN r.tm.cache.tokens
               /\ r.tm.cache.tokens[CacheKey(i)] = FreshEntry(i, oracle[i])
          ELSE /\ CacheKey(i) \in DOMAIN r.tm.cache.tokens
                     <=> CacheKey(i) \in DOMAIN Tokens
               /\ CacheKey(i) \in DOMAIN Tokens
                     => r.tm.cache.tokens[CacheKey(i)] = Tokens[CacheKey(i)]

\* C16: a hot-add whose file fails to load returns the error and changes
\* nothing; once the file has loaded, the full refresh attempts every
\* credential index, goes on after a failure, stamps lastRefresh and reports
\* success, so the hot-add returns no error even when every refresh failed;
\* every entry whose refresh succeeded is replaced by the fresh one, with the
\* freshly computed remaining uses.
C16_FullRefreshAlwaysSucceeds ==
    \A file \in Addable(HotAddFiles) :
        LET loaded == LoadAccountsFromCSV(file)
            configs == tm.configs \o loaded.configs
        IN  IF loaded.err # ""
            THEN \A r \in AddCalls(file) : r.err # "" /\ r.tm = tm
            ELSE \A oracle \in Oracles(Len(configs), Enabled(configs)) :
                    /\ FullRefreshOutcome(AddLoaded(tm, loaded, now, oracle),
                                          configs, oracle)
                    /\ refreshCacheUnlocked(AppendConfigs(tm, loaded.configs),
                                            now, oracle).err = ""

\* C16 witness: an entry written by an earlier full refresh has served a
\* token since, so that its remaining uses are below the computed value; a
\* further hot-add of one credential whose refresh fails returns no error
\* and replaces the entry by a fresh one with the computed uses.
C16_Witness ==
    /\ HotAdded
    /\ Len(tm.configs) = 1
    /\ CacheKey(0) \in DOMAIN Tokens
    /\ Tokens[CacheKey(0)].CachedAt = tm.lastRefresh
    /\ Tokens[CacheKey(0)].LastUsed # ZeroTime
    /\ Tokens[CacheKey(0)].Available
          < CalculateAvailableCount(Tokens[CacheKey(0)].UsageInfo[1])
    /\ \E file \in Addable(HotAddFiles) :
          /\ Len(LoadAccountsFromCSV(file).configs) = 1
          /\ \E oracle \in Oracles(2, {0, 1}) :
                LET r == AddLoaded(tm, LoadAccountsFromCSV(file), now, oracle)
                IN  /\ oracle[1].exchange # "ok"
                    /\ r.err = ""
                    /\ CacheKey(1) \notin DOMAIN r.tm.cache.tokens
                    /\ r.tm.cache.tokens[CacheKey(0)].Available
                          > Tokens[CacheKey(0)].Available
                    /\ r.tm.cache.tokens[CacheKey(0)].LastUsed = ZeroTime

\* A call's result with the exhausted set left out.
WithoutExhausted(r) == [r EXCEPT !.tm.exhausted = {}]

\* Index j comes before index i in the rotation that starts at the cursor.
BeforeInRotation(j, i) ==
    (j - tm.currentIndex) % Len(tm.configOrder)
        < (i - tm.currentIndex) % Len(tm.configOrder)

\* Membership in exhausted does not gate selection: a call made from the
\* pool with its exhausted set emptied ends as the call made from the pool
\* itself, and a credential whose key is in exhausted and which is, or
\* refreshes to, a usable entry is visited and serves its token once no
\* credential before it in the rotation does.
NeverGates ==
    \A oracle \in Oracles(Len(tm.configs), Refreshable(tm, now)) :
        /\ {WithoutExhausted(r) : r \in getBestToken(tm, now, oracle)}
              = {WithoutExhausted(r) :
                    r \in getBestToken([tm EXCEPT !.exhausted = {}], now, oracle)}
        /\ \A i \in Indices(tm) :
              ( /\ CacheKey(i) \in tm.exhausted
                /\ ServesAt(tm, now, i, oracle)
                /\ \A j \in Indices(tm) :
                      BeforeInRotation(j, i) => ~ServesAt(tm, now, j, oracle) )
              => \A r \in getBestToken(tm, now, oracle) :
                    /\ i \in Range(r.visited)
                    /\ r.err = ""
                    /\ r.key = <<CacheKey(i)>>

\* No step removes a key from exhausted.
ExhaustedGrows == tm.exhausted \subseteq tm'.exhausted

\* C17: a key once in exhausted is in it in every later state, whatever
\* operation runs; and membership never gates selection: a key in exhausted
\* is still visited by the scan and its token is returned when its entry
\* is, or refreshes to, a usable one.
C17_ExhaustedGrowsNeverGates ==
    /\ []NeverGates
    /\ [][ExhaustedGrows]_vars

\* C17 witness: both keys of a pool of two are in exhausted, and a call
\* returns the token of the credential under the cursor.
C17_Witness ==
    /\ Len(tm.configOrder) = 2
    /\ tm.exhausted = {CacheKey(0), CacheKey(1)}
    /\ \E r \in GetCalls :
          /\ r.err = ""
          /\ r.key = <<tm.configOrder[tm.currentIndex + 1]>>
          /\ r.key[1] \in tm.exhausted

\* The elements of a sequence are pairwise different.
NoRepeats(seq) == \A i, j \in 1..Len(seq) : seq[i] = seq[j] => i = j

\* A call from the current pool, now or later, makes at most N iterations, each on another
\* index, and at most one refresh per credential; a call that finds nothing
\* usable has made exactly one pass over the N indices.
BoundedScan ==
    \A time \in now..MaxTime :
      \A oracle \in ConcOracles(Len(tm.configs), Refreshable(tm, time)) :
        \A r \in getBestToken(tm, time, oracle) :
            /\ Len(r.visited) <= Len(tm.configOrder)
            /\ Len(r.refreshed) <= Len(tm.configOrder)
            /\ NoRepeats(r.visited)
            /\ NoRepeats(r.refreshed)
            /\ Range(r.refreshed) \subseteq Range(r.visited)
            /\ r.err # "" => Len(r.visited) = Len(tm.configOrder)

\* A caller inside a call eventually returns from it.
EveryCallReturns ==
    \A c \in Callers :
        /\ pc[c] = "wait" ~> pc[c] = "select"
        /\ pc[c] = "loaded" ~> pc[c] = "append"
        /\ pc[c] # "idle" ~> pc[c] = "idle"

\* C18: every call of getBestToken ends: it makes at most N iterations and
\* at most N refreshes, one per credential at most, and fails after one
\* pass when nothing is usable; with the lock scheduled fairly every caller
\* waiting for the lock gets it and every call returns.
C18_CallsTerminate ==
    /\ []BoundedScan
    /\ EveryCallReturns

\* C18 witness: a caller of getBestToken waits for the lock while the other
\* caller, inside a hot-add, holds it; the pool has two credentials and a
\* call on it can fail after refreshing both.
C18_Witness ==
    \E c, d \in Callers :
        /\ pc[c] = "wait"
        /\ mutex = d
        /\ pc[d] = "refresh"
        /\ Len(tm.configOrder) = 2
        /\ \E oracle \in ConcOracles(2, Refreshable(tm, now)) :
              \E r \in getBestToken(tm, now, oracle) :
                  r.err # "" /\ Len(r.refreshed) = 2

\* The remaining uses the refresh that wrote an entry computed for it.
ComputedUses(entry) ==
    IF entry.UsageInfo = <<>> THEN 0
    ELSE CalculateAvailableCount(entry.UsageInfo[1])

\* The smallest whole number of uses that is at least x.
CeilUses(x) == (x + Scale - 1) \div Scale

\* The number of times an entry's token has been returned since the refresh
\* that wrote it: each return lowers Available by 1.0 (IssuesAreCounted).
IssueCount(entry) == (ComputedUses(entry) - entry.Available) \div Scale

\* Every step that touches a cache entry is either a successful refresh,
\* which writes an entry that has not been returned yet, or the bookkeeping
\* of the lock holder on the entry its selection chose, which lowers
\* Available by exactly 1.0 from a positive value; and every return of a
\* token is such a bookkeeping step.
IssuesAreCounted ==
    /\ \A key \in DOMAIN tm'.cache.tokens :
          LET after == tm'.cache.tokens[key]
          IN  \/ key \in DOMAIN Tokens /\ after = Tokens[key]
              \/ /\ after.LastUsed = ZeroTime
                 /\ after.CachedAt = now
                 /\ after.Available = ComputedUses(after)
                 /\ mutex \in Callers
                 /\ pc[mutex] \in {"select", "refresh"}
              \/ /\ key \in DOMAIN Tokens
                 /\ mutex \in Callers
                 /\ pc[mutex] = "use"
                 /\ call[mutex][1].sel = <<key>>
                 /\ Tokens[key].Available > 0
                 /\ after = [Tokens[key] EXCEPT
                                !.LastUsed = now,
                                !.Available = Tokens[key].Available - Scale]
    /\ \A c \in Callers :
          (pc[c] = "use" /\ pc'[c] = "unlock" /\ call[c][1].sel # <<>>) =>
              /\ call[c][1].sel[1] \in DOMAIN Tokens
              /\ IssueCount(tm'.cache.tokens[call[c][1].sel[1]])
                    = IssueCount(Tokens[call[c][1].sel[1]]) + 1
    /\ DOMAIN Tokens \subseteq DOMAIN tm'.cache.tokens

\* No entry has been returned more often than the whole number of uses its
\* refresh computed.
NoOverIssue ==
    \A key \in DOMAIN Tokens :
        /\ IssueCount(Tokens[key]) >= 0
        /\ IssueCount(Tokens[key]) <= CeilUses(ComputedUses(Tokens[key]))
        /\ Tokens[key].Available
              = ComputedUses(Tokens[key]) - Scale * IssueCount(Tokens[key])

\* C19: with concurrent callers, between a successful refresh of a key and
\* the next one the number of getBestToken calls that return the key's token
\* is at most the smallest integer that is at least the remaining uses the
\* earlier refresh computed.
C19_NoOverIssuance ==
    /\ []NoOverIssue
    /\ [][IssuesAreCounted]_vars

\* C19 witness: a caller is leaving the call that took the second and last
\* of the two uses a refresh computed for an entry, while the other caller
\* waits for the lock with credentials it has loaded.
C19_Witness ==
    \E c, d \in Callers :
        /\ pc[c] = "unlock"
        /\ call[c][1].op = "get"
        /\ call[c][1].sel # <<>>
        /\ ComputedUses(Tokens[call[c][1].sel[1]]) = 2 * Scale
        /\ IssueCount(Tokens[call[c][1].sel[1]]) = 2
        /\ Tokens[call[c][1].sel[1]].Available = 0
        /\ pc[d] = "loaded"

\* C20: every key in the cache is the key of a credential index, at that
\* index's position in the rotation order; so with an empty order the cache
\* is empty, every call of getBestToken, now or later, fails with "no usable
\* token" and leaves the pool as it is, and the scan over the cache of an
\* empty order never returns a token.
C20_CacheKeysInOrder ==
    /\ DOMAIN Tokens \subseteq Range(tm.configOrder)
    /\ \A key \in DOMAIN Tokens :
          /\ IndexOf(key) \in 0..(Len(tm.configs) - 1)
          /\ tm.configOrder[IndexOf(key) + 1] = key
          /\ Tokens[key].Token.AccessToken[2] = IndexOf(key)
    /\ Len(tm.configOrder) = 0 =>
          /\ DOMAIN Tokens = {}
          /\ \A time \in now..MaxTime :
                \A oracle \in Oracles(Len(tm.configs), Refreshable(tm, time)) :
                    /\ \A s \in selectBestTokenUnlocked(tm, time, oracle) :
                          s.sel = <<>>
                    /\ \A r \in getBestToken(tm, time, oracle) :
                          /\ r.err = "no usable token"
                          /\ r.token = <<>>
                          /\ r.tm = tm

\* C20 witness: a pool without credentials to which a hot-add of a file
\* without enabled rows has been applied: the order and the cache are empty
\* and a call fails.
C20_Witness ==
    /\ HotAdded
    /\ tm.lastRefresh = now
    /\ Len(tm.configOrder) = 0
    /\ DOMAIN Tokens = {}
    /\ \E r \in GetCalls : r.err = "no usable token"

====
